---- MODULE Spec2Model ----
(***************************************************************************)
(* Marcus AI front end (frontend/src/App.js): the App component's state,   *)
(* the three handlers handleUrlSubmit, handleSendMessage and handleGoBack, *)
(* the two forms that call them (VideoInput, ChatWindow) and the pending   *)
(* fetch("/ask") calls whose completion resumes the async handlers.        *)
(*                                                                         *)
(* JavaScript strings are sequences of one-character strings, so that the  *)
(* regular expression of extractVideoId, String.trim and the template      *)
(* `Error: ${err.message}` are computed character by character.            *)
(***************************************************************************)
EXTENDS Integers, Sequences, FiniteSets, TLC

VARIABLES view, youtubeUrl, isLoading, error, messages, inflight, now, lastOp

vars == <<view, youtubeUrl, isLoading, error, messages, inflight, now, lastOp>>

-----------------------------------------------------------------------------
(* Bounds of the model *)

\* longest transcript a new question may grow to (overview + 2 exchanges)
MaxMsgs == 5
\* last reading of Date.now() (milliseconds since the page was opened)
MaxClock == 2
\* most fetch calls pending at once that the model follows
MaxInflight == 2

-----------------------------------------------------------------------------
(* Optional values: JavaScript null is None, a value v is Some(v) *)

None == <<>>
Some(v) == <<v>>
Get(o) == o[1]

-----------------------------------------------------------------------------
(* String literals of App.js *)

InvalidUrlMsg == <<"I","n","v","a","l","i","d"," ","Y","o","u","T","u","b","e"," ","U","R","L",".">>
OverviewQuery == <<"G","i","v","e"," ","a","n"," ","o","v","e","r","v","i","e","w"," ","o","f"," ","t","h","e"," ","v","i","d","e","o">>
FetchTranscriptMsg == <<"F","a","i","l","e","d"," ","t","o"," ","f","e","t","c","h"," ","t","r","a","n","s","c","r","i","p","t">>
GenerateMsg == <<"E","r","r","o","r"," ","g","e","n","e","r","a","t","i","n","g"," ","r","e","s","p","o","n","s","e">>
ErrorPrefix == <<"E","r","r","o","r",":"," ">>

-----------------------------------------------------------------------------
(* extractVideoId: the regular expression                                  *)
(*  /(?:https?:\/\/)?(?:www\.)?youtu(?:\.be|be\.com)\/(?:watch\?v=)?([\w-]{11})/ *)
(* matched the way String.match does: the leftmost start position wins,    *)
(* and at one start position the optional groups are tried greedily, with  *)
(* backtracking to the alternative without the group.                      *)

Letters == {"a","b","c","d","e","f","g","h","i","j","k","l","m",
            "n","o","p","q","r","s","t","u","v","w","x","y","z",
            "A","B","C","D","E","F","G","H","I","J","K","L","M",
            "N","O","P","Q","R","S","T","U","V","W","X","Y","Z"}
Digits == {"0","1","2","3","4","5","6","7","8","9"}
\* the character class [\w-]
IdChars == Letters \cup Digits \cup {"_", "-"}
\* length of the capture group ([\w-]{11})
IdLen == 11

\* the literal lit occurs in s at position i
HasAt(s, i, lit) ==
    /\ i + Len(lit) - 1 <= Len(s)
    /\ \A k \in 1..Len(lit) : s[i + k - 1] = lit[k]

\* ([\w-]{11}) at position j
MatchId(s, j) ==
    IF j + IdLen - 1 <= Len(s) /\ \A k \in j..(j + IdLen - 1) : s[k] \in IdChars
    THEN Some(SubSeq(s, j, j + IdLen - 1))
    ELSE None

\* (?:watch\?v=)?([\w-]{11}) at position j
MatchWatch(s, j) ==
    IF HasAt(s, j, <<"w","a","t","c","h","?","v","=">>) /\ MatchId(s, j + 8) # None
    THEN MatchId(s, j + 8)
    ELSE MatchId(s, j)

\* youtu(?:\.be|be\.com)\/ ... at position j
MatchHost(s, j) ==
    IF ~HasAt(s, j, <<"y","o","u","t","u">>) THEN None
    ELSE IF HasAt(s, j + 5, <<".","b","e","/">>) /\ MatchWatch(s, j + 9) # None
         THEN MatchWatch(s, j + 9)
    ELSE IF HasAt(s, j + 5, <<"b","e",".","c","o","m","/">>)
         THEN MatchWatch(s, j + 12)
    ELSE None

\* the pattern with a mandatory www\. in place of (?:www\.)?
MatchWwwRequired(s, j) ==
    IF HasAt(s, j, <<"w","w","w",".">>) THEN MatchHost(s, j + 4) ELSE None

\* (?:www\.)? ... at position j
MatchWww(s, j) ==
    IF HasAt(s, j, <<"w","w","w",".">>) /\ MatchHost(s, j + 4) # None
    THEN MatchHost(s, j + 4)
    ELSE MatchHost(s, j)

\* (?:https?:\/\/)? ... at position j: the whole pattern tried at start j
MatchAt(s, j) ==
    IF HasAt(s, j, <<"h","t","t","p","s",":","/","/">>) /\ MatchWww(s, j + 8) # None
    THEN MatchWww(s, j + 8)
    ELSE IF HasAt(s, j, <<"h","t","t","p",":","/","/">>) /\ MatchWww(s, j + 7) # None
    THEN MatchWww(s, j + 7)
    ELSE MatchWww(s, j)

\* match ? match[1] : null
extractVideoId(url) ==
    LET starts == {i \in 1..Len(url) : MatchAt(url, i) # None}
    IN  IF starts = {} THEN None
        ELSE MatchAt(url, CHOOSE i \in starts : \A k \in starts : i <= k)

-----------------------------------------------------------------------------
(* String.prototype.trim and truthiness of a string *)

WhiteSpace == {" ", "\t", "\n"}

RECURSIVE TrimStart(_)
TrimStart(s) ==
    IF s # <<>> /\ Head(s) \in WhiteSpace THEN TrimStart(Tail(s)) ELSE s

RECURSIVE TrimEnd(_)
TrimEnd(s) ==
    IF s # <<>> /\ s[Len(s)] \in WhiteSpace THEN TrimEnd(SubSeq(s, 1, Len(s) - 1)) ELSE s

trim(s) == TrimEnd(TrimStart(s))

\* a string is truthy when it is not empty
Truthy(s) == s # <<>>

-----------------------------------------------------------------------------
(* Inputs: what the user types and what the /ask service answers *)

UrlFull == <<"h","t","t","p","s",":","/","/","w","w","w",".","y","o","u","t","u","b","e",".","c","o","m","/","w","a","t","c","h","?","v","=","d","Q","w","4","w","9","W","g","X","c","Q">>
UrlShort == <<"y","o","u","t","u",".","b","e","/","a","_","b","-","c","1","2","3","X","Y","Z">>
UrlBad == <<"n","o","t"," ","a"," ","u","r","l">>
Blank == <<" ">>

\* texts typed into the VideoInput form
UrlInputs == {UrlFull, UrlShort, UrlBad, Blank}

WhatYear == <<"W","h","a","t"," ","y","e","a","r","?">>
Hi == <<"h","i">>

\* texts typed into the ChatWindow form
TextInputs == {WhatYear, Hi, Blank}

AboutText == <<"T","h","i","s"," ","v","i","d","e","o"," ","i","s"," ","a","b","o","u","t",".",".",".">>
In1987 == <<"1","9","8","7">>
ModelTimeout == <<"m","o","d","e","l"," ","t","i","m","e","o","u","t">>
FailedToFetch == <<"F","a","i","l","e","d"," ","t","o"," ","f","e","t","c","h">>

\* what a pending fetch can come back with: a 2xx response carrying
\* data.response, a non-2xx response with or without data.detail, or a
\* rejected promise (no response at all)
Outcomes ==
    { [type |-> "ok", response |-> r, detail |-> None, message |-> <<>>] :
          r \in {AboutText, In1987} }
    \cup
    { [type |-> "http_error", response |-> <<>>, detail |-> d, message |-> <<>>] :
          d \in {None, Some(ModelTimeout), Some(<<>>)} }
    \cup
    { [type |-> "network_error", response |-> <<>>, detail |-> None,
       message |-> FailedToFetch] }

NoOutcome == [type |-> "none", response |-> <<>>, detail |-> None, message |-> <<>>]

NoRequest == [kind |-> "none", video_id |-> None, query |-> <<>>, urlBefore |-> <<>>]

\* the last handler that ran, the argument it was called with, the request
\* it issued or resumed, and the outcome it resumed with (history, not read
\* by the handlers)
Op(op, arg, req, out) == [op |-> op, arg |-> arg, req |-> req, out |-> out]

-----------------------------------------------------------------------------
(* State after the first render of App *)

Init ==
    /\ view = "videoInput"
    /\ youtubeUrl = <<>>
    /\ isLoading = FALSE
    /\ error = None
    /\ messages = <<>>
    /\ inflight = <<>>
    /\ now = 0
    /\ lastOp = Op("init", <<>>, NoRequest, NoOutcome)

-----------------------------------------------------------------------------
(* The handlers of App *)

\* a message object {id, text, sender}
Msg(id, text, sender) == [id |-> id, text |-> text, sender |-> sender]

\* the request a handler is suspended on at `await fetch(...)`: the JSON
\* body it sent, and (history) the value youtubeUrl had when the handler
\* was called
Request(kind, videoId, query) ==
    [kind |-> kind, video_id |-> videoId, query |-> query, urlBefore |-> youtubeUrl]

\* handleUrlSubmit without the `return` after setError("Invalid YouTube URL.")
handleUrlSubmitNoReturn(url) ==
    LET videoId == extractVideoId(url)
    IN  /\ Len(inflight) < MaxInflight
        /\ isLoading' = TRUE
        /\ error' = None
        /\ youtubeUrl' = url
        /\ inflight' = Append(inflight, Request("url", videoId, OverviewQuery))
        /\ lastOp' = Op("handleUrlSubmit", url, Request("url", videoId, OverviewQuery), NoOutcome)
        /\ UNCHANGED <<view, messages, now>>

\* handleUrlSubmit without setError(null)
handleUrlSubmitNoClear(url) ==
    LET videoId == extractVideoId(url)
    IN  IF videoId = None
        THEN /\ error' = Some(InvalidUrlMsg)
             /\ lastOp' = Op("handleUrlSubmit", url, NoRequest, NoOutcome)
             /\ UNCHANGED <<view, youtubeUrl, isLoading, messages, inflight, now>>
        ELSE /\ Len(inflight) < MaxInflight
             /\ isLoading' = TRUE
             /\ youtubeUrl' = url
             /\ inflight' = Append(inflight, Request("url", videoId, OverviewQuery))
             /\ lastOp' = Op("handleUrlSubmit", url, Request("url", videoId, OverviewQuery), NoOutcome)
             /\ UNCHANGED <<view, messages, error, now>>

\* handleUrlSubmit up to its first await
handleUrlSubmit(url) ==
    LET videoId == extractVideoId(url)
    IN  IF videoId = None
        THEN /\ error' = Some(InvalidUrlMsg)
             /\ lastOp' = Op("handleUrlSubmit", url, NoRequest, NoOutcome)
             /\ UNCHANGED <<view, youtubeUrl, isLoading, messages, inflight, now>>
        ELSE /\ Len(inflight) < MaxInflight
             /\ isLoading' = TRUE
             /\ error' = None
             /\ youtubeUrl' = url
             /\ inflight' = Append(inflight, Request("url", videoId, OverviewQuery))
             /\ lastOp' = Op("handleUrlSubmit", url, Request("url", videoId, OverviewQuery), NoOutcome)
             /\ UNCHANGED <<view, messages, now>>

\* handleSendMessage up to its first await
handleSendMessage(text) ==
    LET userMessage == Msg(now, text, "user")
        videoId == extractVideoId(youtubeUrl)
    IN  /\ Len(messages) + 2 <= MaxMsgs
        /\ Len(inflight) < MaxInflight
        /\ messages' = Append(messages, userMessage)
        /\ isLoading' = TRUE
        /\ inflight' = Append(inflight, Request("msg", videoId, text))
        /\ lastOp' = Op("handleSendMessage", text, Request("msg", videoId, text), NoOutcome)
        /\ UNCHANGED <<view, youtubeUrl, error, now>>

\* handleGoBack without setView('videoInput')
handleGoBackKeepsView ==
    /\ youtubeUrl' = <<>>
    /\ messages' = <<>>
    /\ error' = None
    /\ lastOp' = Op("handleGoBack", <<>>, NoRequest, NoOutcome)
    /\ UNCHANGED <<view, isLoading, inflight, now>>

\* handleGoBack
handleGoBack ==
    /\ view' = "videoInput"
    /\ youtubeUrl' = <<>>
    /\ messages' = <<>>
    /\ error' = None
    /\ lastOp' = Op("handleGoBack", <<>>, NoRequest, NoOutcome)
    /\ UNCHANGED <<isLoading, inflight, now>>

\* the five useState values of App
AppState ==
    [view |-> view, youtubeUrl |-> youtubeUrl, isLoading |-> isLoading,
     error |-> error, messages |-> messages]

\* handleGoBack that switches between the two views instead of setting
\* 'videoInput'
goBackTogglesView(s) ==
    [s EXCEPT !.view = IF s.view = "chat" THEN "videoInput" ELSE "chat",
              !.youtubeUrl = <<>>,
              !.messages = <<>>,
              !.error = None]

\* handleGoBack as a function of the state it is called in
goBack(s) ==
    [s EXCEPT !.view = "videoInput",
              !.youtubeUrl = <<>>,
              !.messages = <<>>,
              !.error = None]

\* err.message of the error the try block ends with: the thrown
\* new Error(data.detail || fallback), or the rejection of fetch
ErrMessage(out, fallback) ==
    IF out.type = "http_error"
    THEN IF out.detail # None /\ Truthy(Get(out.detail)) THEN Get(out.detail) ELSE fallback
    ELSE out.message

\* handleUrlSubmit resumed, without the finally block
resumeUrlSubmitNoFinally(req, out) ==
    /\ IF out.type = "ok"
       THEN /\ messages' = <<Msg(now, out.response, "bot")>>
            /\ view' = "chat"
            /\ error' = error
       ELSE /\ error' = Some(ErrMessage(out, FetchTranscriptMsg))
            /\ UNCHANGED <<messages, view>>
    /\ UNCHANGED <<isLoading, youtubeUrl, now>>

\* handleUrlSubmit from the await to its end (try / catch / finally)
resumeUrlSubmit(req, out) ==
    /\ IF out.type = "ok"
       THEN /\ messages' = <<Msg(now, out.response, "bot")>>
            /\ view' = "chat"
            /\ error' = error
       ELSE /\ error' = Some(ErrMessage(out, FetchTranscriptMsg))
            /\ UNCHANGED <<messages, view>>
    /\ isLoading' = FALSE
    /\ UNCHANGED <<youtubeUrl, now>>

\* handleSendMessage resumed, putting the reply in front of the transcript
resumeSendMessagePrepends(req, out) ==
    /\ IF out.type = "ok"
       THEN messages' = <<Msg(now + 1, out.response, "bot")>> \o messages
       ELSE messages' = <<Msg(now + 1, ErrorPrefix \o ErrMessage(out, GenerateMsg), "bot")>>
                            \o messages
    /\ isLoading' = FALSE
    /\ UNCHANGED <<view, youtubeUrl, error, now>>

\* handleSendMessage resumed, without the finally block
resumeSendMessageNoFinally(req, out) ==
    /\ IF out.type = "ok"
       THEN messages' = Append(messages, Msg(now + 1, out.response, "bot"))
       ELSE messages' = Append(messages,
                Msg(now + 1, ErrorPrefix \o ErrMessage(out, GenerateMsg), "bot"))
    /\ UNCHANGED <<isLoading, view, youtubeUrl, error, now>>

\* handleSendMessage resumed, reporting a failure through setError the way
\* handleUrlSubmit does
resumeSendMessageSetsError(req, out) ==
    /\ IF out.type = "ok"
       THEN /\ messages' = Append(messages, Msg(now + 1, out.response, "bot"))
            /\ error' = error
       ELSE /\ error' = Some(ErrMessage(out, GenerateMsg))
            /\ messages' = messages
    /\ isLoading' = FALSE
    /\ UNCHANGED <<view, youtubeUrl, now>>

\* handleSendMessage resumed, dropping the reply when youtubeUrl is no
\* longer the one the question was asked about
resumeSendMessageDropsStale(req, out) ==
    /\ IF youtubeUrl # req.urlBefore
       THEN messages' = messages
       ELSE IF out.type = "ok"
       THEN messages' = Append(messages, Msg(now + 1, out.response, "bot"))
       ELSE messages' = Append(messages,
                Msg(now + 1, ErrorPrefix \o ErrMessage(out, GenerateMsg), "bot"))
    /\ isLoading' = FALSE
    /\ UNCHANGED <<view, youtubeUrl, error, now>>

\* handleSendMessage from the await to its end (try / catch / finally)
resumeSendMessage(req, out) ==
    /\ IF out.type = "ok"
       THEN messages' = Append(messages, Msg(now + 1, out.response, "bot"))
       ELSE messages' = Append(messages,
                Msg(now + 1, ErrorPrefix \o ErrMessage(out, GenerateMsg), "bot"))
    /\ isLoading' = FALSE
    /\ UNCHANGED <<view, youtubeUrl, error, now>>

-----------------------------------------------------------------------------
(* The events that run the handlers *)

\* no handler runs: the form control is disabled, or the typed text is blank
Ignored(arg) ==
    /\ lastOp' = Op("ignored", arg, NoRequest, NoOutcome)
    /\ UNCHANGED <<view, youtubeUrl, isLoading, error, messages, inflight, now>>

\* the VideoInput form without its disabled attributes
VideoInputNeverDisabled == FALSE

\* disabled={isLoading} on the input and the button of VideoInput
VideoInputDisabled == isLoading

\* the ChatWindow form without its disabled attributes
ChatInputNeverDisabled == FALSE

\* disabled={isLoading} on the input and the button of ChatWindow
ChatInputDisabled == isLoading

\* the user types url into the VideoInput form and submits it
SubmitVideoForm(url) ==
    /\ view = "videoInput"
    /\ IF VideoInputDisabled \/ ~Truthy(trim(url))
       THEN Ignored(url)
       ELSE handleUrlSubmit(url)

\* the user types input into the ChatWindow form and submits it
SubmitChatForm(input) ==
    /\ view = "chat"
    /\ IF ChatInputDisabled \/ ~Truthy(trim(input))
       THEN Ignored(input)
       ELSE handleSendMessage(input)

\* the user clicks "Use another video" in ChatWindow
ClickGoBack ==
    /\ view = "chat"
    /\ handleGoBack

Remove(seq, i) == SubSeq(seq, 1, i - 1) \o SubSeq(seq, i + 1, Len(seq))

\* the i-th pending fetch settles with outcome out and its handler resumes
Resolve(i, out) ==
    /\ i \in 1..Len(inflight)
    /\ inflight' = Remove(inflight, i)
    /\ lastOp' = Op("resolve", <<>>, inflight[i], out)
    /\ IF inflight[i].kind = "url"
       THEN resumeUrlSubmit(inflight[i], out)
       ELSE resumeSendMessage(inflight[i], out)

\* Date.now() moves on
Tick ==
    /\ now < MaxClock
    /\ now' = now + 1
    /\ UNCHANGED <<view, youtubeUrl, isLoading, error, messages, inflight, lastOp>>

Next ==
    \/ \E url \in UrlInputs : SubmitVideoForm(url)
    \/ \E input \in TextInputs : SubmitChatForm(input)
    \/ ClickGoBack
    \/ \E i \in 1..MaxInflight, out \in Outcomes : Resolve(i, out)
    \/ Tick

Spec == Init /\ [][Next]_vars

\* every pending fetch eventually settles
LiveSpec == Spec /\ WF_vars(\E i \in 1..MaxInflight, out \in Outcomes : Resolve(i, out))

-----------------------------------------------------------------------------
(* extractVideoId on its own: the argument is drawn from links assembled   *)
(* from the parts the pattern names, with identifiers of 10, 11 and 12     *)
(* characters, from links behind a foreign host, and from texts that are   *)
(* no link; it is held in youtubeUrl, as in extractVideoId(youtubeUrl) of  *)
(* handleSendMessage, and the value returned is recorded in lastOp.        *)

Schemes == {<<>>, <<"h","t","t","p",":","/","/">>, <<"h","t","t","p","s",":","/","/">>}
Wwws == {<<>>, <<"w","w","w",".">>}
Hosts == {<<"y","o","u","t","u",".","b","e","/">>, <<"y","o","u","t","u","b","e",".","c","o","m","/">>}
Watches == {<<>>, <<"w","a","t","c","h","?","v","=">>}
\* query parameters after the identifier
Suffixes == {<<>>, <<"&","t","=","4","2">>}

Id11A == <<"d","Q","w","4","w","9","W","g","X","c","Q">>
Id11B == <<"a","_","b","-","c","1","2","3","X","Y","Z">>
Id10 == <<"d","Q","w","4","w","9","W","g","X","c">>
Id12 == <<"d","Q","w","4","w","9","W","g","X","c","Q","0">>
Ids11 == {Id11A, Id11B}
IdsOther == {Id10, Id12}

Link(sch, w, h, wa, id, suf) == sch \o w \o h \o wa \o id \o suf

Links(ids) ==
    { Link(sch, w, h, wa, id, suf) :
        sch \in Schemes, w \in Wwws, h \in Hosts, wa \in Watches,
        id \in ids, suf \in Suffixes }

\* the host text as the tail of another host name, and a link inside the
\* query of a URL of another host
OtherHostTail == <<"n","o","t">>
OtherHostQuery == <<"e","v","i","l",".","c","o","m","/","?","u","=">>

ForeignLinks ==
    { sch \o OtherHostTail \o h \o wa \o Id11A :
        sch \in Schemes, h \in Hosts, wa \in Watches }
    \cup
    { sch \o OtherHostQuery \o Link(<<>>, w, h, wa, Id11A, <<>>) :
        sch \in Schemes, w \in Wwws, h \in Hosts, wa \in Watches }

ExtractInputs ==
    Links(Ids11) \cup Links(IdsOther) \cup ForeignLinks \cup {<<>>, UrlBad, Blank, Id11A}

ExtractInit ==
    /\ view = "videoInput"
    /\ youtubeUrl \in ExtractInputs
    /\ isLoading = FALSE
    /\ error = None
    /\ messages = <<>>
    /\ inflight = <<>>
    /\ now = 0
    /\ lastOp = Op("init", <<>>, NoRequest, NoOutcome)

\* const videoId = extractVideoId(youtubeUrl)
Extract ==
    /\ lastOp.op = "init"
    /\ lastOp' = Op("extractVideoId", youtubeUrl,
                    [NoRequest EXCEPT !.video_id = extractVideoId(youtubeUrl)], NoOutcome)
    /\ UNCHANGED <<view, youtubeUrl, isLoading, error, messages, inflight, now>>

ExtractNext == Extract

ExtractSpec == ExtractInit /\ [][ExtractNext]_vars

-----------------------------------------------------------------------------
(* Properties *)

\* the step is a run of handler op (Tick is the only step that moves the
\* clock, and it leaves lastOp alone)
Ran(op) == lastOp'.op = op /\ now' = now

Last(seq) == seq[Len(seq)]

\* sub occurs in s
Contains(s, sub) == \E i \in 1..(Len(s) - Len(sub) + 1) : HasAt(s, i, sub)

\* C1 - single flight: at most one ask request is pending, isLoading is true
\* exactly while one is pending, and no step taken while isLoading is true
\* issues a request or adds a message to the transcript, other than the
\* pending request's own completion.
SingleFlight ==
    /\ [](Len(inflight) = IF isLoading THEN 1 ELSE 0)
    /\ [][isLoading =>
            /\ Len(inflight') <= Len(inflight)
            /\ Len(messages') > Len(messages) => Len(inflight') < Len(inflight)]_vars

\* a submission was attempted while a request was pending, and was ignored
SingleFlightWitness ==
    /\ lastOp.op = "ignored"
    /\ Truthy(trim(lastOp.arg))
    /\ isLoading
    /\ Len(inflight) = 1

\* C2 - ordering: handleSendMessage appends the user's message while its
\* request is still pending, a successful completion in chat appends the bot
\* reply right after that user message, and the transcript shown in chat is
\* the overview followed by strictly alternating user and bot messages.
Alternates ==
    \A k \in 1..Len(messages) :
        messages[k].sender = IF k % 2 = 1 THEN "bot" ELSE "user"

SendOrdering ==
    /\ [](view = "chat" => Len(messages) >= 1 /\ Alternates)
    /\ [][Ran("handleSendMessage") =>
            /\ Len(messages') = Len(messages) + 1
            /\ SubSeq(messages', 1, Len(messages)) = messages
            /\ Last(messages').sender = "user"
            /\ Last(messages').text = lastOp'.arg
            /\ Len(inflight') = Len(inflight) + 1
            /\ Last(inflight').query = lastOp'.arg]_vars
    /\ [][(Ran("resolve") /\ lastOp'.req.kind = "msg" /\ lastOp'.out.type = "ok"
             /\ view = "chat") =>
            /\ Len(messages') = Len(messages) + 1
            /\ SubSeq(messages', 1, Len(messages)) = messages
            /\ Last(messages).sender = "user"
            /\ Last(messages).text = lastOp'.req.query
            /\ Last(messages').sender = "bot"
            /\ Last(messages').text = lastOp'.out.response]_vars

\* two questions answered in call order after the overview
SendOrderingWitness ==
    /\ view = "chat"
    /\ Len(messages) = 5
    /\ Alternates
    /\ messages[2].text = WhatYear
    /\ messages[3].text = In1987
    /\ messages[4].text = Hi
    /\ messages[5].text = AboutText

\* C3 - loading reset: right after a request resolves, whatever its handler
\* and its outcome, isLoading is false.
LoadingReset == lastOp.op = "resolve" => ~isLoading

\* a question's request was rejected by the network and loading is over
LoadingResetWitness ==
    /\ lastOp.op = "resolve"
    /\ lastOp.req.kind = "msg"
    /\ lastOp.out.type = "network_error"
    /\ ~isLoading

\* C4 - no stuck loading indicator: when every pending request eventually
\* resolves, isLoading = true leads to isLoading = false.
LoadingEnds == isLoading ~> ~isLoading

\* "Use another video" was clicked while a question's request was pending
LoadingEndsWitness ==
    /\ lastOp.op = "handleGoBack"
    /\ isLoading
    /\ view = "videoInput"
    /\ Len(inflight) = 1

\* C5 - in chat, youtubeUrl is set and extractVideoId accepts it with an
\* 11-character id.
ChatHasVideo ==
    view = "chat" =>
        /\ youtubeUrl # <<>>
        /\ extractVideoId(youtubeUrl) # None
        /\ Len(Get(extractVideoId(youtubeUrl))) = 11

\* the chat of the short link, after a question was answered
ChatHasVideoWitness ==
    /\ view = "chat"
    /\ youtubeUrl = UrlShort
    /\ extractVideoId(youtubeUrl) = Some(<<"a","_","b","-","c","1","2","3","X","Y","Z">>)
    /\ Len(messages) = 3

\* the message of the error a failed request ends with: the service's
\* detail when there is one, the handler's fallback text or the network
\* error's own message otherwise
FailureText(out, fallback) ==
    IF out.type = "http_error" /\ out.detail # None /\ Get(out.detail) # <<>>
    THEN Get(out.detail)
    ELSE IF out.type = "http_error" THEN fallback ELSE out.message

\* C6 - right after handleUrlSubmit's request fails, error holds the error's
\* message, isLoading is false, view is videoInput and youtubeUrl is what it
\* was before handleUrlSubmit was called.
FailedSubmitKeepsVideo ==
    (lastOp.op = "resolve" /\ lastOp.req.kind = "url" /\ lastOp.out.type # "ok") =>
        /\ error = Some(FailureText(lastOp.out, FetchTranscriptMsg))
        /\ ~isLoading
        /\ view = "videoInput"
        /\ youtubeUrl = lastOp.req.urlBefore

\* C7 - in chat, handleSendMessage appends the user's message and touches
\* neither view, youtubeUrl nor error; when its request fails, one bot
\* message containing the error's message is appended right after that user
\* message, the earlier messages stay as they were, and view, youtubeUrl and
\* error are unchanged.
SendFailureInTranscript ==
    /\ [][Ran("handleSendMessage") =>
            /\ messages' = Append(messages, Msg(now, lastOp'.arg, "user"))
            /\ UNCHANGED <<view, youtubeUrl, error>>]_vars
    /\ [][(Ran("resolve") /\ lastOp'.req.kind = "msg" /\ lastOp'.out.type # "ok"
             /\ view = "chat") =>
            /\ Len(messages') = Len(messages) + 1
            /\ SubSeq(messages', 1, Len(messages)) = messages
            /\ Last(messages).sender = "user"
            /\ Last(messages).text = lastOp'.req.query
            /\ Last(messages').sender = "bot"
            /\ Contains(Last(messages').text, FailureText(lastOp'.out, GenerateMsg))
            /\ UNCHANGED <<view, youtubeUrl, error>>]_vars

\* "What year?" failed with the detail "model timeout"
SendFailureWitness ==
    /\ lastOp.op = "resolve"
    /\ lastOp.req.kind = "msg"
    /\ lastOp.out.type = "http_error"
    /\ lastOp.out.detail = Some(ModelTimeout)
    /\ view = "chat"
    /\ Len(messages) = 3
    /\ messages[2] = Msg(messages[2].id, WhatYear, "user")
    /\ messages[3].sender = "bot"
    /\ Contains(messages[3].text, ModelTimeout)
    /\ error = None

\* C8 - handleUrlSubmit called with a url for which extractVideoId returns
\* null sets error to "Invalid YouTube URL.", stays on videoInput, issues no
\* request and leaves isLoading, messages and youtubeUrl unchanged.
InvalidSubmitRejected ==
    [][(Ran("handleUrlSubmit") /\ extractVideoId(lastOp'.arg) = None) =>
            /\ error' = Some(InvalidUrlMsg)
            /\ view = "videoInput" /\ view' = "videoInput"
            /\ inflight' = inflight
            /\ UNCHANGED <<isLoading, messages, youtubeUrl>>]_vars

\* "not a url" was submitted
InvalidSubmitWitness ==
    /\ lastOp.op = "handleUrlSubmit"
    /\ lastOp.arg = UrlBad
    /\ extractVideoId(UrlBad) = None
    /\ error = Some(InvalidUrlMsg)
    /\ view = "videoInput"
    /\ inflight = <<>>

\* C9 - when handleUrlSubmit's request succeeds with response text r, one bot
\* message with text r is appended to the transcript, view becomes chat,
\* isLoading becomes false and error is null.
SubmitSuccessAppends ==
    [][(Ran("resolve") /\ lastOp'.req.kind = "url" /\ lastOp'.out.type = "ok") =>
            /\ Len(messages') = Len(messages) + 1
            /\ SubSeq(messages', 1, Len(messages)) = messages
            /\ Last(messages').sender = "bot"
            /\ Last(messages').text = lastOp'.out.response
            /\ view' = "chat"
            /\ ~isLoading'
            /\ error' = None]_vars

\* C10 (as claimed) - every step that issues a request leaves error null, and
\* error goes from null to set only in a step that resolves a request with a
\* failure.
ErrorSetOnlyByFailure ==
    /\ [][Len(inflight') > Len(inflight) => error' = None]_vars
    /\ [][(error = None /\ error' # None) =>
            (Ran("resolve") /\ lastOp'.out.type # "ok")]_vars

\* C10 (amended) - every step that issues a request leaves error null, and
\* error goes from null to set only in a step that resolves a request with a
\* failure, or in a call of handleUrlSubmit with a url that extractVideoId
\* rejects.
ErrorSetByFailureOrInvalid ==
    /\ [][Len(inflight') > Len(inflight) => error' = None]_vars
    /\ [][(error = None /\ error' # None) =>
            \/ Ran("resolve") /\ lastOp'.out.type # "ok"
            \/ Ran("handleUrlSubmit") /\ extractVideoId(lastOp'.arg) = None]_vars

\* a second link was submitted after the first one's request had failed:
\* the error of the failure is cleared while the new request is pending
ErrorClearedWitness ==
    /\ lastOp.op = "handleUrlSubmit"
    /\ lastOp.req.kind = "url"
    /\ lastOp.req.urlBefore # <<>>
    /\ isLoading
    /\ error = None

\* C11 - the ids of the transcript's messages strictly increase in
\* transcript order (and so are pairwise distinct), whatever the clock reads.
IdsIncrease ==
    \A i, j \in 1..Len(messages) : i < j => messages[i].id < messages[j].id

\* C12 - every step other than a run of handleGoBack keeps the transcript it
\* started from as a prefix of the transcript it ends with.
AppendOnly ==
    [][~Ran("handleGoBack") =>
            /\ Len(messages') >= Len(messages)
            /\ SubSeq(messages', 1, Len(messages)) = messages]_vars

\* C13 - a run of handleGoBack ends on videoInput with youtubeUrl, messages
\* and error cleared; it takes the state to goBack of the state, and goBack
\* applied twice gives what goBack applied once gives.
ResetIdempotent ==
    /\ [][Ran("handleGoBack") =>
            /\ view' = "videoInput"
            /\ youtubeUrl' = <<>>
            /\ messages' = <<>>
            /\ error' = None
            /\ AppState' = goBack(AppState)]_vars
    /\ [](goBack(goBack(AppState)) = goBack(AppState))
    /\ [](lastOp.op = "handleGoBack" => goBack(AppState) = AppState)

\* "Use another video" was clicked while a question's request was pending
ResetWitness ==
    /\ lastOp.op = "handleGoBack"
    /\ view = "videoInput"
    /\ youtubeUrl = <<>>
    /\ messages = <<>>
    /\ error = None
    /\ goBack(AppState) = AppState
    /\ isLoading

\* extractVideoId was applied to youtubeUrl, and what it returned
Extracted == lastOp.req.video_id
Applied == lastOp.op = "extractVideoId"

\* C14 - for a link of a recognized form (short or full host, with or
\* without watch?v=) extractVideoId returns the link's 11-character
\* identifier, the same whether or not the link has a scheme or www., and
\* whatever query parameters follow the identifier.
ExtractSameId ==
    Applied =>
        \A sch \in Schemes, w \in Wwws, h \in Hosts, wa \in Watches,
           id \in Ids11, suf \in Suffixes :
            youtubeUrl = Link(sch, w, h, wa, id, suf) =>
                /\ Extracted = Some(id)
                /\ Len(Get(Extracted)) = 11
                /\ Extracted = extractVideoId(Link(<<>>, <<>>, h, wa, id, <<>>))

\* scenario A followed by a query parameter
ExtractSameIdWitness ==
    /\ Applied
    /\ youtubeUrl = UrlFull \o <<"&","t","=","4","2">>
    /\ Extracted = Some(Id11A)

\* C15 - extractVideoId returns null for the empty string, for a text that
\* is no link, and for a link whose identifier has 10 or 12 identifier
\* characters.
ExtractRejectsOthers ==
    Applied =>
        (youtubeUrl \in {<<>>, UrlBad} \cup Links(IdsOther) => Extracted = None)

\* C16 - extractVideoId returns null for a string in which the recognized
\* host text is only the tail of another host name, or only part of the
\* query of another host's URL.
ExtractAnchored ==
    Applied => (youtubeUrl \in ForeignLinks => Extracted = None)

\* C17 - handleGoBack leaves a pending request pending and isLoading as it
\* is; when a question's request resolves after handleGoBack (view is
\* videoInput), its bot message, reply or error text, is appended to the
\* emptied transcript and isLoading becomes false.
NoCancellation ==
    /\ [][Ran("handleGoBack") => inflight' = inflight /\ isLoading' = isLoading]_vars
    /\ [][(Ran("resolve") /\ lastOp'.req.kind = "msg" /\ view = "videoInput") =>
            /\ messages = <<>>
            /\ Len(messages') = 1
            /\ messages'[1].sender = "bot"
            /\ messages'[1].text =
                 IF lastOp'.out.type = "ok"
                 THEN lastOp'.out.response
                 ELSE ErrorPrefix \o FailureText(lastOp'.out, GenerateMsg)
            /\ ~isLoading']_vars

\* the reply to "What year?" arrived after "Use another video" was clicked
NoCancellationWitness ==
    /\ lastOp.op = "resolve"
    /\ lastOp.req.kind = "msg"
    /\ lastOp.req.query = WhatYear
    /\ lastOp.out.type = "ok"
    /\ view = "videoInput"
    /\ Len(messages) = 1
    /\ messages[1].text = lastOp.out.response
    /\ ~isLoading

\* C18 - on the videoInput screen the transcript is empty.
InputScreenEmpty == view = "videoInput" => messages = <<>>

\* C19 - the chat opens on the youtubeUrl whose request succeeded, youtubeUrl
\* does not change while the chat stays open, and every request issued by
\* handleSendMessage carries the id extracted from it, which is not null.
SendCarriesChatVideo ==
    /\ [][(Ran("resolve") /\ lastOp'.req.kind = "url" /\ lastOp'.out.type = "ok") =>
            /\ view' = "chat"
            /\ lastOp'.req.video_id # None
            /\ extractVideoId(youtubeUrl') = lastOp'.req.video_id]_vars
    /\ [][(view = "chat" /\ view' = "chat") => youtubeUrl' = youtubeUrl]_vars
    /\ [][Ran("handleSendMessage") =>
            /\ view = "chat"
            /\ Last(inflight').kind = "msg"
            /\ Last(inflight').video_id # None
            /\ Last(inflight').video_id = extractVideoId(youtubeUrl)]_vars
    /\ [](\A i \in 1..Len(inflight) : inflight[i].video_id # None)

\* a question is pending in the chat of the short link
SendCarriesWitness ==
    /\ lastOp.op = "handleSendMessage"
    /\ view = "chat"
    /\ youtubeUrl = UrlShort
    /\ Len(inflight) = 1
    /\ inflight[1].kind = "msg"
    /\ inflight[1].video_id = Some(Id11B)

\* C20 - in chat, error is null.
ChatHasNoError == view = "chat" => error = None

\* a question failed in chat: the failure is in the transcript, not in error
ChatHasNoErrorWitness ==
    /\ view = "chat"
    /\ lastOp.op = "resolve"
    /\ lastOp.req.kind = "msg"
    /\ lastOp.out.type = "network_error"
    /\ Contains(Last(messages).text, FailedToFetch)
    /\ error = None

====
